---- MODULE Spec2Model ----
(***************************************************************************)
(* State-machine model of src/src/index.ts (NewRelicLambdaLayerPlugin).    *)
(*                                                                         *)
(* Two specifications share the variables:                                 *)
(*   Spec     the Instrumentation Planner: the run hook, addLayer and the  *)
(*            layer lookup it awaits;                                      *)
(*   LogSpec  the Log Filter Reconciler: the after:deploy:deploy hook      *)
(*            (addLogStreamFilters), the before:remove:remove hook         *)
(*            (removeLogStreamFilters) and the provider calls they issue.  *)
(*                                                                         *)
(* Conventions.  A JavaScript string-valued slot that may be undefined is  *)
(* a TLA+ string, with Absent standing for undefined.  Strings the code    *)
(* pattern-matches (runtimes, layer references) are sequences of tokens,   *)
(* so that String.prototype.match is modelled by what it does: a search    *)
(* for a contiguous occurrence.                                            *)
(***************************************************************************)
EXTENDS Integers, Sequences, FiniteSets, TLC

VARIABLES
    \* ---- planner -------------------------------------------------------
    config,      \* serverless.service.custom.newRelic
    service,     \* provider.region, provider.runtime, plugins, version
    funcDefs,    \* the manifest: function key -> function definition
    apc,         \* per function: position of its addLayer call
    locals,      \* per function: what addLayer destructured before its await
    lookupLog,   \* requests sent to the layer lookup service, in order
    unhandled,   \* functions whose addLayer promise was rejected, unhandled
    halted,      \* the process was ended by an unhandled rejection
    runs,        \* how many times the run hook has been invoked
    planned,     \* per function: how many addLayer calls ran to the end
    lastArn,     \* per function: the layer ARN its last finished addLayer used
    \* ---- log filter reconciler -----------------------------------------
    hook,        \* which log hook has been invoked: none / deploy / remove
    filters,     \* provider state: function name -> filter name -> filter
    pc,          \* per function: step of its reconciliation chain
    calls,       \* provider calls issued, in issue order
    inflight,    \* indexes into calls still awaiting their response
    outcome,     \* per call index: pending / ok / failed
    snapshot,    \* per function: what describe returned (existingFilters)
    destArn,     \* per function: destinationArn read from the ingestion fn
    escaped,     \* functions out of whose chain an error was raised
    logged,      \* per function: number of provider errors logged
    \* ---- getHandlerWrapper called on its own ----------------------------
    wrapArgs,    \* the runtime and handler it is called with
    wrapResult   \* what it returned (Absent before the call)

plannerVars == <<config, service, funcDefs, apc, locals, lookupLog, unhandled,
                 halted, runs, planned, lastArn>>
logVars == <<hook, filters, pc, calls, inflight, outcome, snapshot, destArn,
             escaped, logged>>
wrapVars == <<wrapArgs, wrapResult>>
vars == <<plannerVars, logVars, wrapVars>>

-----------------------------------------------------------------------------
(* Bounds and input universes                                              *)

\* How many times the run hook is invoked in one behaviour.
MaxRuns == 2

\* Function keys of the service (serverless.service.getAllFunctions()), in
\* the order Object.keys enumerates them.
FuncOrder == <<"f1", "f2">>
Funcs == {FuncOrder[i] : i \in 1..Len(FuncOrder)}

\* undefined, for string-valued slots.
Absent == "<undefined>"

\* JavaScript truthiness of a string-or-undefined value.
Truthy(v) == v # Absent /\ v # ""

\* s contains t as a contiguous run of tokens: what String.prototype.match
\* does with a pattern free of regular-expression metacharacters.
Contains(s, t) ==
    \E i \in 0..(Len(s) - Len(t)) : SubSeq(s, i + 1, i + Len(t)) = t

\* Array.prototype.indexOf: 0-based, -1 when absent.
IndexOf(seq, x) ==
    IF \E i \in 1..Len(seq) : seq[i] = x
    THEN (CHOOSE i \in 1..Len(seq) :
              seq[i] = x /\ \A j \in 1..(i - 1) : seq[j] # x) - 1
    ELSE -1

\* ---- runtimes: token sequences; the empty sequence is undefined ---------
UndefRT == <<>>
Nodejs12 == <<"nodejs", "12.x">>
Nodejs10 == <<"nodejs", "10.x">>
Nodejs810 == <<"nodejs", "8.10">>
Python27 == <<"python", "2.7">>
Python36 == <<"python", "3.6">>
Python37 == <<"python", "3.7">>
Python38 == <<"python", "3.8">>
Ruby25 == <<"ruby", "2.5">>

\* ---- layer references ----------------------------------------------------
\* kind is typeof: "string", "object" (a CloudFormation reference) or
\* "undefined"; text is the string's tokens.
Str(t) == [kind |-> "string", text |-> t]
UndefinedRef == [kind |-> "undefined", text |-> <<>>]
ObjectRef == [kind |-> "object", text |-> <<"Ref">>]

ArnA == <<"nr-layer", ":", "9">>       \* the layer the lookup service names
ArnB == <<"nr-layer", ":", "1", "0">>  \* a later version of it
ArnA1 == <<"nr-layer", ":", "9", "1">> \* a version whose text extends ArnA
OtherArn == <<"other-layer", ":", "3">>

\* ---- environment ---------------------------------------------------------
EnvKeys == {"NEW_RELIC_LAMBDA_HANDLER", "NEW_RELIC_LOG", "NEW_RELIC_LOG_LEVEL",
            "NEW_RELIC_NO_CONFIG_FILE", "NEW_RELIC_APP_NAME",
            "NEW_RELIC_ACCOUNT_ID", "NEW_RELIC_TRUSTED_ACCOUNT_KEY",
            "NEW_RELIC_SERVERLESS_MODE_ENABLED"}

EmptyEnv == [k \in EnvKeys |-> Absent]

\* Every variable the planner defaults already set by the operator.
OperatorEnv ==
    [k \in EnvKeys |->
        CASE k = "NEW_RELIC_LOG" -> "op-log"
          [] k = "NEW_RELIC_LOG_LEVEL" -> "op-level"
          [] k = "NEW_RELIC_NO_CONFIG_FILE" -> "op-false"
          [] k = "NEW_RELIC_APP_NAME" -> "op-app"
          [] k = "NEW_RELIC_ACCOUNT_ID" -> "op-acct"
          [] k = "NEW_RELIC_TRUSTED_ACCOUNT_KEY" -> "op-key"
          [] OTHER -> Absent]

\* The same variables set by the operator to the empty string.
BlankEnv ==
    [k \in EnvKeys |->
        IF k \in {"NEW_RELIC_LAMBDA_HANDLER", "NEW_RELIC_SERVERLESS_MODE_ENABLED"}
        THEN Absent ELSE ""]

\* ---- packaging -----------------------------------------------------------
NoPackage == [defined |-> FALSE, hasExclude |-> FALSE, exclude |-> <<>>]
NoLayers == [defined |-> FALSE, items |-> <<>>]
Layers(items) == [defined |-> TRUE, items |-> items]

WrapperGlob == "!newrelic-lambda-wrapper.handler"
NodeWrapper == "newrelic-lambda-wrapper.handler"
PythonWrapper == "newrelic_lambda_wrapper.handler"

-----------------------------------------------------------------------------
(* Instrumentation Planner: pure parts of addLayer                         *)

\* Mutant of SupportedRuntimes: the list also admits runtimes of other
\* families and versions.
SupportedRuntimesWide ==
    {Nodejs12, Nodejs10, Nodejs810, Python27, Python36, Python37, Python38, Ruby25}

\* The runtimes addLayer accepts.
SupportedRuntimes == {Nodejs12, Nodejs10, Nodejs810, Python27, Python36, Python37}

\* semver.lt on <<major, minor, patch>>.
SemverLt(a, b) ==
    \/ a[1] < b[1]
    \/ a[1] = b[1] /\ a[2] < b[2]
    \/ a[1] = b[1] /\ a[2] = b[2] /\ a[3] < b[3]

MinVersion == <<1, 34, 0>>

\* Mutant of RunGate: the plugin order is only warned about.
RunGateWarnOnly ==
    IF SemverLt(service.version, MinVersion) THEN "version" ELSE "none"

\* run's early returns: "version", "plugins" or "none".
RunGate ==
    IF SemverLt(service.version, MinVersion) THEN "version"
    ELSE IF IndexOf(service.plugins, "serverless-webpack")
              > IndexOf(service.plugins, "serverless-newrelic-layers")
    THEN "plugins"
    ELSE "none"

\* runtime = funcDef.runtime, defaulting to provider.runtime when undefined.
EffectiveRuntime(def) ==
    IF def.runtime = UndefRT THEN service.runtime ELSE def.runtime

\* The destructuring at the head of addLayer, with its defaults.
Destructure(def) ==
    [name |-> def.name,
     environment |-> def.environment,
     handler |-> def.handler,
     runtime |-> EffectiveRuntime(def),
     layers |-> IF def.layers.defined THEN def.layers.items ELSE <<>>,
     pkg |-> IF def.package.defined THEN def.package
             ELSE [defined |-> TRUE, hasExclude |-> FALSE, exclude |-> <<>>]]

NoLocals ==
    [name |-> Absent, environment |-> EmptyEnv, handler |-> Absent,
     runtime |-> UndefRT, layers |-> <<>>, pkg |-> NoPackage]

\* Mutant of SkipReason: the account-id check is missing.
SkipReasonNoAccount(f, def) ==
    IF ~Truthy(service.region) THEN "region"
    ELSE IF EffectiveRuntime(def) = UndefRT
            \/ EffectiveRuntime(def) \notin SupportedRuntimes THEN "runtime"
    ELSE IF IndexOf(config.exclude, f) # -1 THEN "excluded"
    ELSE "none"

\* addLayer's early returns, in the order the code tests them; "none" when
\* the function is to be instrumented.
SkipReason(f, def) ==
    IF ~Truthy(service.region) THEN "region"
    ELSE IF ~Truthy(config.accountId)
            /\ ~Truthy(def.environment["NEW_RELIC_ACCOUNT_ID"]) THEN "account"
    ELSE IF EffectiveRuntime(def) = UndefRT
            \/ EffectiveRuntime(def) \notin SupportedRuntimes THEN "runtime"
    ELSE IF IndexOf(config.exclude, f) # -1 THEN "excluded"
    ELSE "none"

\* Mutant of HasLayerOverride: the override is ignored.
HasLayerOverrideNever == FALSE

\* config.layerArn ? config.layerArn : await getLayerArn(...): is the
\* override used?
HasLayerOverride == config.layerArn.kind = "string" /\ config.layerArn.text # <<>>

\* Mutant of LayerMatches: the test never finds the layer.
LayerMatchesNever(layer, layerArn) == FALSE

\* typeof layer === "string" && layer.match(layerArn).  An undefined
\* layerArn becomes the empty pattern, which every string matches.
LayerMatches(layer, layerArn) ==
    /\ layer.kind = "string"
    /\ \/ layerArn.kind = "undefined"
       \/ Contains(layer.text, layerArn.text)

\* Mutant of AttachLayer: an unset prepend counts as true.
AttachLayerPrependUnlessFalse(layers, layerArn) ==
    IF \E i \in 1..Len(layers) : LayerMatches(layers[i], layerArn)
    THEN layers
    ELSE IF config.prepend # "false"
         THEN <<layerArn>> \o layers
         ELSE Append(layers, layerArn)

\* The layers array after the attachment step.
AttachLayer(layers, layerArn) ==
    IF \E i \in 1..Len(layers) : LayerMatches(layers[i], layerArn)
    THEN layers
    ELSE IF config.prepend = "true"
         THEN <<layerArn>> \o layers
         ELSE Append(layers, layerArn)

\* funcDef.layers after the attachment step: assigned only when a layer was
\* added.
LayersAfter(def, L, layerArn) ==
    IF \E i \in 1..Len(L.layers) : LayerMatches(L.layers[i], layerArn)
    THEN def.layers
    ELSE Layers(AttachLayer(L.layers, layerArn))

\* v ? v : d
OrElse(v, d) == IF Truthy(v) THEN v ELSE d

\* The environment assignments of addLayer, in order.
EnvironmentAfter(f, L) ==
    LET e1 == [L.environment EXCEPT !["NEW_RELIC_LAMBDA_HANDLER"] = L.handler]
        e2 == [e1 EXCEPT !["NEW_RELIC_LOG"] = OrElse(@, "stdout")]
        e3 == [e2 EXCEPT !["NEW_RELIC_LOG_LEVEL"] =
                   OrElse(@, IF config.debug THEN "debug" ELSE "info")]
        e4 == [e3 EXCEPT !["NEW_RELIC_NO_CONFIG_FILE"] = OrElse(@, "true")]
        e5 == [e4 EXCEPT !["NEW_RELIC_APP_NAME"] = OrElse(@, OrElse(L.name, f))]
        e6 == [e5 EXCEPT !["NEW_RELIC_ACCOUNT_ID"] = OrElse(@, config.accountId)]
        e7 == [e6 EXCEPT !["NEW_RELIC_TRUSTED_ACCOUNT_KEY"] =
                   OrElse(@, OrElse(e6["NEW_RELIC_ACCOUNT_ID"],
                                    config.trustedAccountKey))]
        \* "true" ? environment.X : ... : the condition is a non-empty
        \* literal, so the variable is assigned its own value.
        e8 == [e7 EXCEPT !["NEW_RELIC_SERVERLESS_MODE_ENABLED"] = @]
    IN  e8

\* Mutant of getHandlerWrapper: the node list predates nodejs12.x.
getHandlerWrapperOldList(runtime, handler) ==
    IF \/ runtime \in {Nodejs810, Nodejs10}
       \/ (runtime = Nodejs10 /\ service.enterpriseEnabled)
    THEN NodeWrapper
    ELSE IF Contains(runtime, <<"python">>)
    THEN PythonWrapper
    ELSE handler

getHandlerWrapper(runtime, handler) ==
    IF \/ runtime \in {Nodejs810, Nodejs10, Nodejs12}
       \/ (runtime = Nodejs10 /\ service.enterpriseEnabled)
    THEN NodeWrapper
    ELSE IF Contains(runtime, <<"python">>)
    THEN PythonWrapper
    ELSE handler

updatePackageExcludes(runtime, pkg) ==
    IF ~Contains(runtime, <<"nodejs">>)
    THEN pkg
    ELSE [defined |-> TRUE, hasExclude |-> TRUE,
          exclude |-> Append(pkg.exclude, WrapperGlob)]

\* The definition addLayer leaves behind when it runs to its end with
\* layerArn, from the locals L it destructured.
Instrumented(f, def, L, layerArn) ==
    [def EXCEPT
        !.layers = LayersAfter(def, L, layerArn),
        !.environment = EnvironmentAfter(f, L),
        !.handler = getHandlerWrapper(L.runtime, L.handler),
        !.package = updatePackageExcludes(L.runtime, L.pkg)]

\* getLayerArn: what the promise settles to for a reply of the lookup
\* service.  "ok" carries Layers[0].LatestMatchingVersion.LayerVersionArn;
\* "nopath" is JSON without that path (_.get gives undefined); "malformed"
\* makes JSON.parse throw and "error" is a failed request: both reject.
LookupReplies ==
    {[kind |-> "ok", arn |-> Str(ArnA)], [kind |-> "ok", arn |-> Str(ArnB)],
     [kind |-> "nopath", arn |-> UndefinedRef],
     [kind |-> "malformed", arn |-> UndefinedRef],
     [kind |-> "error", arn |-> UndefinedRef]}

getLayerArnRejects(reply) == reply.kind \in {"malformed", "error"}

getLayerArnValue(reply) ==
    IF reply.kind = "ok" THEN reply.arn ELSE UndefinedRef

-----------------------------------------------------------------------------
(* Instrumentation Planner: inputs                                         *)

BaseConfig ==
    [accountId |-> "cfg-acct", trustedAccountKey |-> Absent,
     layerArn |-> UndefinedRef, exclude |-> <<>>, prepend |-> Absent,
     debug |-> FALSE, serverlessModeEnabled |-> Absent]

\* prepend is "true" / "false" for the booleans, Absent when unset.
ConfigInputs ==
    {[BaseConfig EXCEPT !.accountId = a, !.layerArn = l, !.prepend = p] :
        a \in {Absent, "cfg-acct"},
        l \in {UndefinedRef, Str(ArnA)},
        p \in {Absent, "true", "false"}}
    \cup {[BaseConfig EXCEPT !.debug = TRUE, !.trustedAccountKey = "cfg-key"],
          [BaseConfig EXCEPT !.exclude = <<"f1">>],
          [BaseConfig EXCEPT !.accountId = Absent, !.trustedAccountKey = "cfg-key"]}

BaseService ==
    [region |-> "us-east-1", runtime |-> Python37,
     plugins |-> <<"serverless-newrelic-layers">>, version |-> <<1, 34, 0>>,
     enterpriseEnabled |-> FALSE]

ServiceInputs ==
    {BaseService,
     [BaseService EXCEPT !.region = Absent],
     [BaseService EXCEPT !.runtime = UndefRT],
     [BaseService EXCEPT !.runtime = Python38],
     [BaseService EXCEPT !.runtime = Nodejs10, !.enterpriseEnabled = TRUE],
     [BaseService EXCEPT !.version = <<1, 33, 9>>],
     [BaseService EXCEPT !.plugins = <<"serverless-webpack", "serverless-newrelic-layers">>],
     [BaseService EXCEPT !.plugins = <<"serverless-newrelic-layers", "serverless-webpack">>]}

\* The (config, service) pairs a behaviour starts from: every config with
\* the base service, and every service with the base config.
WorldInputs ==
    {<<c, BaseService>> : c \in ConfigInputs}
    \cup {<<BaseConfig, sv>> : sv \in ServiceInputs}

\* The name the framework gives a function (service-stage-key).
FuncName(f) == "svc-dev-" \o f

FuncDef(f, r, e, l, p) ==
    [name |-> FuncName(f), environment |-> e, handler |-> "index.handler",
     runtime |-> r, layers |-> l, package |-> p]

LayersInputs ==
    {NoLayers, Layers(<<Str(ArnA)>>), Layers(<<Str(OtherArn), ObjectRef>>),
     Layers(<<Str(ArnA1)>>)}

PackageInputs ==
    {NoPackage,
     [defined |-> TRUE, hasExclude |-> TRUE, exclude |-> <<"tests/**">>]}

RuntimeInputs == {UndefRT, Nodejs12, Python37, Ruby25}

\* f1 ranges over the definitions the planner's decisions depend on; f2 is
\* a plain second function, there for what two functions do together.  For f1
\* the environment varies with the other fields at their defaults and the
\* layers and packaging vary with an empty environment.
FuncDefInputs(f) ==
    IF f = FuncOrder[1]
    THEN {FuncDef(f, r, e, NoLayers, NoPackage) :
              r \in RuntimeInputs, e \in {EmptyEnv, OperatorEnv, BlankEnv}}
         \cup {FuncDef(f, r, EmptyEnv, l, p) :
                  r \in {Nodejs12, Python37}, l \in LayersInputs, p \in PackageInputs}
    ELSE {FuncDef(f, r, EmptyEnv, NoLayers, NoPackage) : r \in {UndefRT, Nodejs12}}

-----------------------------------------------------------------------------
(* Log Filter Reconciler: idle state (its operations follow the planner)   *)

LogIdle ==
    /\ hook = "none"
    /\ filters = [f \in Funcs |-> <<>>]
    /\ pc = [f \in Funcs |-> "idle"]
    /\ calls = <<>>
    /\ inflight = {}
    /\ outcome = <<>>
    /\ snapshot = [f \in Funcs |-> <<>>]
    /\ destArn = [f \in Funcs |-> Absent]
    /\ escaped = {}
    /\ logged = [f \in Funcs |-> 0]

\* getHandlerWrapper has not been called on its own.
NoWrapArgs == [runtime |-> UndefRT, handler |-> Absent]

WrapIdle ==
    /\ wrapArgs = NoWrapArgs
    /\ wrapResult = Absent

-----------------------------------------------------------------------------
(* Instrumentation Planner: state machine                                  *)

PlannerIdle ==
    /\ apc = [f \in Funcs |-> "idle"]
    /\ locals = [f \in Funcs |-> NoLocals]
    /\ lookupLog = <<>>
    /\ unhandled = {}
    /\ halted = FALSE
    /\ runs = 0
    /\ planned = [f \in Funcs |-> 0]
    /\ lastArn = [f \in Funcs |-> UndefinedRef]

Init ==
    /\ \E w \in WorldInputs : config = w[1] /\ service = w[2]
    /\ funcDefs \in [Funcs -> UNION {FuncDefInputs(f) : f \in Funcs}]
    /\ \A f \in Funcs : funcDefs[f] \in FuncDefInputs(f)
    /\ PlannerIdle
    /\ LogIdle
    /\ WrapIdle

\* What the synchronous head of addLayer(f) does when run calls it: return
\* early, run to the end with the configured layer, or stop at the await.
HeadOutcome(f) ==
    IF SkipReason(f, funcDefs[f]) # "none" THEN "skipped"
    ELSE IF HasLayerOverride THEN "done"
    ELSE "awaitArn"

\* The lookup requests one run issues, in function order.
RECURSIVE RequestsFrom(_)
RequestsFrom(i) ==
    IF i > Len(FuncOrder) THEN <<>>
    ELSE (IF HeadOutcome(FuncOrder[i]) = "awaitArn"
          THEN <<[fn |-> FuncOrder[i],
                  runtime |-> EffectiveRuntime(funcDefs[FuncOrder[i]]),
                  region |-> service.region, run |-> runs + 1]>>
          ELSE <<>>) \o RequestsFrom(i + 1)

\* run(): the version and plugin-order gates, then forEach over the
\* functions.  forEach calls each async callback in turn and each runs
\* synchronously up to its first await, so when run returns every addLayer
\* has either returned, finished, or is suspended on its lookup.
Run ==
    /\ ~halted
    /\ runs < MaxRuns
    /\ \A f \in Funcs : apc[f] # "awaitArn"
    /\ runs' = runs + 1
    /\ IF RunGate # "none"
       THEN UNCHANGED <<funcDefs, apc, locals, lookupLog, planned, lastArn>>
       ELSE /\ apc' = [f \in Funcs |-> HeadOutcome(f)]
            /\ locals' = [f \in Funcs |->
                            IF HeadOutcome(f) = "awaitArn"
                            THEN Destructure(funcDefs[f]) ELSE NoLocals]
            /\ funcDefs' = [f \in Funcs |->
                              IF HeadOutcome(f) = "done"
                              THEN Instrumented(f, funcDefs[f],
                                                Destructure(funcDefs[f]),
                                                config.layerArn)
                              ELSE funcDefs[f]]
            /\ planned' = [f \in Funcs |->
                             IF HeadOutcome(f) = "done"
                             THEN planned[f] + 1 ELSE planned[f]]
            /\ lastArn' = [f \in Funcs |->
                             IF HeadOutcome(f) = "done"
                             THEN config.layerArn ELSE lastArn[f]]
            /\ lookupLog' = lookupLog \o RequestsFrom(1)
    /\ UNCHANGED <<config, service, unhandled, halted>>
    /\ UNCHANGED <<logVars, wrapVars>>

\* The lookup for f's addLayer is answered and the rest of addLayer runs.
LookupResolves(f, reply) ==
    /\ ~halted
    /\ apc[f] = "awaitArn"
    /\ ~getLayerArnRejects(reply)
    /\ funcDefs' = [funcDefs EXCEPT ![f] =
                       Instrumented(f, @, locals[f], getLayerArnValue(reply))]
    /\ apc' = [apc EXCEPT ![f] = "done"]
    /\ locals' = [locals EXCEPT ![f] = NoLocals]
    /\ planned' = [planned EXCEPT ![f] = @ + 1]
    /\ lastArn' = [lastArn EXCEPT ![f] = getLayerArnValue(reply)]
    /\ UNCHANGED <<config, service, lookupLog, unhandled, halted, runs>>
    /\ UNCHANGED <<logVars, wrapVars>>

\* The lookup for f's addLayer fails: the await throws, addLayer's promise
\* is rejected and so is the forEach callback's, which nothing handles.
\* What an unhandled rejection does is the host's choice: the run goes on,
\* or the process ends.
LookupRejects(f, reply, ends) ==
    /\ ~halted
    /\ apc[f] = "awaitArn"
    /\ getLayerArnRejects(reply)
    /\ apc' = [apc EXCEPT ![f] = "rejected"]
    /\ locals' = [locals EXCEPT ![f] = NoLocals]
    /\ unhandled' = unhandled \cup {f}
    /\ halted' = ends
    /\ UNCHANGED <<config, service, funcDefs, lookupLog, runs, planned, lastArn>>
    /\ UNCHANGED <<logVars, wrapVars>>

Next ==
    \/ Run
    \/ \E f \in Funcs, reply \in LookupReplies : LookupResolves(f, reply)
    \/ \E f \in Funcs, reply \in LookupReplies, ends \in BOOLEAN :
           LookupRejects(f, reply, ends)

Spec == Init /\ [][Next]_vars

-----------------------------------------------------------------------------
(* Log Filter Reconciler: requests                                         *)

FilterName == "NewRelicLogStreaming"
FilterPattern == "NR_LAMBDA_MONITORING"
IngestionFunction == "newrelic-log-ingestion"

\* res.Configuration.FunctionArn of the ingestion function.
IngestionArn == "arn:ingest"

\* `/aws/lambda/${funcName}`, funcName being the function's name.
LogGroupName(f) == "/aws/lambda/" \o funcDefs[f].name

Filter(n, p, d) == [filterName |-> n, filterPattern |-> p, destinationArn |-> d]

\* A provider call.  fn is the function whose chain issued it; awaited says
\* whether that chain continues from its response.
Call(f, op, awaited) ==
    [fn |-> f, op |-> op, awaited |-> awaited, FunctionName |-> Absent,
     logGroupName |-> Absent, filterName |-> Absent, filterPattern |-> Absent,
     destinationArn |-> Absent]

\* ensureLogStreamFilter: request("Lambda", "getFunction", {FunctionName}).
getFunctionCall(f) ==
    [Call(f, "getFunction", TRUE) EXCEPT !.FunctionName = funcDefs[f].name]

\* getDestinationArn: getFunction of the ingestion function.
getDestinationArnCall(f) ==
    [Call(f, "getIngestion", TRUE) EXCEPT !.FunctionName = IngestionFunction]

describeSubscriptionFiltersCall(f) ==
    [Call(f, "describe", TRUE) EXCEPT !.logGroupName = LogGroupName(f)]

\* Mutant of addSubscriptionFilterCall: the log group is named by the bare
\* function name.
addSubscriptionFilterCallBareGroup(f, destinationArn, awaited) ==
    [Call(f, "put", awaited) EXCEPT
        !.destinationArn = destinationArn,
        !.filterName = FilterName,
        !.filterPattern = FilterPattern,
        !.logGroupName = funcDefs[f].name]

addSubscriptionFilterCall(f, destinationArn, awaited) ==
    [Call(f, "put", awaited) EXCEPT
        !.destinationArn = destinationArn,
        !.filterName = FilterName,
        !.filterPattern = FilterPattern,
        !.logGroupName = LogGroupName(f)]

removeSubscriptionFilterCall(f, awaited) ==
    [Call(f, "delete", awaited) EXCEPT
        !.filterName = FilterName,
        !.logGroupName = LogGroupName(f)]

\* Mutant of Handlers: addSubscriptionFilter has no .catch of its own.
HandlersAddUncaught(c) ==
    CASE c.op = "getFunction" -> <<"ensureLogStreamFilter">>
      [] c.op = "getIngestion" -> <<"getDestinationArn", "ensureLogStreamFilter">>
      [] c.op = "describe" ->
            <<"describeSubscriptionFilters", "getDestinationArn",
              "ensureLogStreamFilter">>
      [] c.op = "put" ->
            (IF c.awaited
             THEN <<"describeSubscriptionFilters", "getDestinationArn",
                    "ensureLogStreamFilter">>
             ELSE <<>>)
      [] c.op = "delete" -> <<"removeSubscriptionFilter">>

\* The .catch handlers a rejection of the call's promise passes through,
\* innermost first.  Every handler logs err.providerError.message and
\* resolves, so the first one ends the rejection.  A put or delete issued
\* from the stale-filter branch is returned to nobody: only the handler of
\* addSubscriptionFilter / removeSubscriptionFilter itself stands behind it.
\* The forEach callbacks of the hooks have no handler of their own.
Handlers(c) ==
    CASE c.op = "getFunction" -> <<"ensureLogStreamFilter">>
      [] c.op = "getIngestion" -> <<"getDestinationArn", "ensureLogStreamFilter">>
      [] c.op = "describe" ->
            <<"describeSubscriptionFilters", "getDestinationArn",
              "ensureLogStreamFilter">>
      [] c.op = "put" ->
            <<"addSubscriptionFilter">> \o
            (IF c.awaited
             THEN <<"describeSubscriptionFilters", "getDestinationArn",
                    "ensureLogStreamFilter">>
             ELSE <<>>)
      [] c.op = "delete" -> <<"removeSubscriptionFilter">>

\* existingFilters: the filters of the describe response that carry the
\* reserved name.
IsOurs(filter) == filter.filterName = FilterName
ExistingFilters(res) == SelectSeq(res, IsOurs)

\* Mutant of IsStale: every filter of the reserved name is replaced.
IsStaleAlways(filter) == TRUE

\* filter.filterPattern !== "NR_LAMBDA_MONITORING"
IsStale(filter) == filter.filterPattern # FilterPattern
StaleFilters(res) == SelectSeq(ExistingFilters(res), IsStale)

\* Mutant of StaleBranchCalls: the Adds are issued before the Removes.
StaleBranchCallsAddFirst(f, stale, destinationArn) ==
    [i \in 1..Len(stale) |-> addSubscriptionFilterCall(f, destinationArn, FALSE)]
    \o [i \in 1..Len(stale) |-> removeSubscriptionFilterCall(f, FALSE)]

\* The two chained maps over the stale filters: the first map calls
\* removeSubscriptionFilter once per stale filter, the second map then calls
\* addSubscriptionFilter once per element of the first map's result.  Both
\* maps run synchronously and no promise is awaited in between.
StaleBranchCalls(f, stale, destinationArn) ==
    [i \in 1..Len(stale) |-> removeSubscriptionFilterCall(f, FALSE)]
    \o [i \in 1..Len(stale) |-> addSubscriptionFilterCall(f, destinationArn, FALSE)]

\* The calls the .then of describeSubscriptionFilters issues for res.
DescribeThenCalls(f, res, destinationArn) ==
    IF Len(ExistingFilters(res)) > 0
    THEN StaleBranchCalls(f, StaleFilters(res), destinationArn)
    ELSE <<addSubscriptionFilterCall(f, destinationArn, TRUE)>>

\* config.exclude is an array that names f (addLogStreamFilters).
IsExcluded(f) == IndexOf(config.exclude, f) # -1

\* The functions addLogStreamFilters starts a chain for, in order.
DeployTargets == SelectSeq(FuncOrder, LAMBDA f : ~IsExcluded(f))

\* Mutant of TeardownTargets: teardown honours config.exclude as the
\* post-deploy hook does.
TeardownTargetsNotExcluded == SelectSeq(FuncOrder, LAMBDA f : ~IsExcluded(f))

\* The functions removeLogStreamFilters issues a Remove for, in order.
TeardownTargets == FuncOrder

-----------------------------------------------------------------------------
(* The provider (black box): what a call does to the log group's filters  *)

\* putSubscriptionFilter creates the filter or replaces the one of that name.
PutFilter(fs, c) ==
    LET new == Filter(c.filterName, c.filterPattern, c.destinationArn)
    IN  IF \E i \in 1..Len(fs) : fs[i].filterName = c.filterName
        THEN [i \in 1..Len(fs) |->
                 IF fs[i].filterName = c.filterName THEN new ELSE fs[i]]
        ELSE Append(fs, new)

\* DeleteSubscriptionFilter removes the filter of that name.
DeleteFilter(fs, c) ==
    SelectSeq(fs, LAMBDA x : x.filterName # c.filterName)

\* A delete can succeed only if the filter exists; any call can fail.
ProviderCanSucceed(c) ==
    c.op = "delete" =>
        \E i \in 1..Len(filters[c.fn]) : filters[c.fn][i].filterName = c.filterName

FiltersAfter(c, ok) ==
    IF ~ok THEN filters
    ELSE IF c.op = "put" THEN [filters EXCEPT ![c.fn] = PutFilter(@, c)]
    ELSE IF c.op = "delete" THEN [filters EXCEPT ![c.fn] = DeleteFilter(@, c)]
    ELSE filters

-----------------------------------------------------------------------------
(* Log Filter Reconciler: inputs                                           *)

OtherFilter == Filter("AuditTrail", "ERROR", "arn:audit")
GoodFilter == Filter(FilterName, FilterPattern, IngestionArn)
ForeignFilter == Filter(FilterName, FilterPattern, "arn:elsewhere")
OldFilter == Filter(FilterName, "OLD_PATTERN", IngestionArn)

\* Filter names are unique within a log group.
FilterInputs ==
    {<<>>, <<GoodFilter>>, <<ForeignFilter>>, <<OldFilter>>,
     <<OtherFilter>>, <<OtherFilter, GoodFilter>>, <<OtherFilter, OldFilter>>}

LogFuncDef(f) == FuncDef(f, Nodejs12, EmptyEnv, NoLayers, NoPackage)

LogInit ==
    /\ config \in {BaseConfig, [BaseConfig EXCEPT !.exclude = <<"f1">>]}
    /\ service = BaseService
    /\ funcDefs = [f \in Funcs |-> LogFuncDef(f)]
    /\ PlannerIdle
    /\ hook = "none"
    /\ filters \in [Funcs -> FilterInputs]
    /\ pc = [f \in Funcs |-> "idle"]
    /\ calls = <<>>
    /\ inflight = {}
    /\ outcome = <<>>
    /\ snapshot = [f \in Funcs |-> <<>>]
    /\ destArn = [f \in Funcs |-> Absent]
    /\ escaped = {}
    /\ logged = [f \in Funcs |-> 0]
    /\ WrapIdle

-----------------------------------------------------------------------------
(* Log Filter Reconciler: state machine                                    *)

\* Issue the calls cs, in order.
Issue(cs, stillInflight) ==
    /\ calls' = calls \o cs
    /\ inflight' = stillInflight \cup ((Len(calls) + 1)..(Len(calls) + Len(cs)))

InSeq(seq, x) == \E i \in 1..Len(seq) : seq[i] = x

\* addLogStreamFilters (after:deploy:deploy): forEach runs every callback
\* up to its first await, so each function that is not excluded has its
\* getFunction call issued before the hook returns.
addLogStreamFilters ==
    /\ hook = "none"
    /\ hook' = "deploy"
    /\ pc' = [f \in Funcs |-> IF InSeq(DeployTargets, f) THEN "fetch" ELSE "excluded"]
    /\ Issue([i \in 1..Len(DeployTargets) |-> getFunctionCall(DeployTargets[i])],
             inflight)
    /\ outcome' = outcome \o [i \in 1..Len(DeployTargets) |-> "pending"]
    /\ UNCHANGED <<filters, snapshot, destArn, escaped, logged>>
    /\ UNCHANGED <<plannerVars, wrapVars>>

\* removeLogStreamFilters (before:remove:remove): one Remove per function.
removeLogStreamFilters ==
    /\ hook = "none"
    /\ hook' = "remove"
    /\ pc' = [f \in Funcs |-> IF InSeq(TeardownTargets, f) THEN "remove" ELSE "excluded"]
    /\ Issue([i \in 1..Len(TeardownTargets) |->
                 removeSubscriptionFilterCall(TeardownTargets[i], TRUE)],
             inflight)
    /\ outcome' = outcome \o [i \in 1..Len(TeardownTargets) |-> "pending"]
    /\ UNCHANGED <<filters, snapshot, destArn, escaped, logged>>
    /\ UNCHANGED <<plannerVars, wrapVars>>

\* The provider answers call i (ok: it succeeds) and the promise chain
\* behind the call runs on: the chain of c.fn moves to newPc and issues
\* newCalls.  A rejection is logged by the first handler behind the call;
\* with no handler it leaves the chain.
Settle(i, ok, newPc, newCalls) ==
    LET c == calls[i]
    IN  /\ i \in inflight
        /\ ok => ProviderCanSucceed(c)
        /\ filters' = FiltersAfter(c, ok)
        /\ Issue(newCalls, inflight \ {i})
        /\ outcome' = [outcome EXCEPT ![i] = IF ok THEN "ok" ELSE "failed"]
                      \o [k \in 1..Len(newCalls) |-> "pending"]
        /\ pc' = [pc EXCEPT ![c.fn] = newPc]
        /\ logged' = IF ~ok /\ Handlers(c) # <<>>
                     THEN [logged EXCEPT ![c.fn] = @ + 1] ELSE logged
        /\ escaped' = IF ~ok /\ Handlers(c) = <<>>
                      THEN escaped \cup {c.fn} ELSE escaped
        /\ UNCHANGED hook
        /\ UNCHANGED <<plannerVars, wrapVars>>

\* ensureLogStreamFilter's getFunction returns: on success
\* getDestinationArn is called, on failure the chain ends in the catch.
\* Mutant of FetchReturns: the destination lookup is issued whether or not
\* the fetch succeeded.
FetchReturnsThenAlways(i, ok) ==
    /\ i \in inflight /\ calls[i].op = "getFunction"
    /\ Settle(i, ok, "dest", <<getDestinationArnCall(calls[i].fn)>>)
    /\ UNCHANGED <<snapshot, destArn>>

FetchReturns(i, ok) ==
    /\ i \in inflight /\ calls[i].op = "getFunction"
    /\ Settle(i, ok, IF ok THEN "dest" ELSE "done",
              IF ok THEN <<getDestinationArnCall(calls[i].fn)>> ELSE <<>>)
    /\ UNCHANGED <<snapshot, destArn>>

\* getDestinationArn's getFunction returns: on success the ARN is read and
\* describeSubscriptionFilters is called.
DestinationReturns(i, ok) ==
    /\ i \in inflight /\ calls[i].op = "getIngestion"
    /\ Settle(i, ok, IF ok THEN "describe" ELSE "done",
              IF ok THEN <<describeSubscriptionFiltersCall(calls[i].fn)>> ELSE <<>>)
    /\ destArn' = IF ok THEN [destArn EXCEPT ![calls[i].fn] = IngestionArn]
                  ELSE destArn
    /\ UNCHANGED snapshot

\* The describe call returns the log group's filters.  With no filter of
\* the reserved name the Add is returned into the chain (the chain waits for
\* it); otherwise the stale-branch calls are issued and the chain ends.
DescribeReturns(i, ok) ==
    LET f == calls[i].fn
        res == filters[f]
    IN  /\ i \in inflight /\ calls[i].op = "describe"
        /\ Settle(i, ok,
                  IF ok /\ Len(ExistingFilters(res)) = 0 THEN "add" ELSE "done",
                  IF ok THEN DescribeThenCalls(f, res, destArn[f]) ELSE <<>>)
        /\ snapshot' = IF ok THEN [snapshot EXCEPT ![f] = <<res>>] ELSE snapshot
        /\ UNCHANGED destArn

\* A putSubscriptionFilter call returns.
AddReturns(i, ok) ==
    /\ i \in inflight /\ calls[i].op = "put"
    /\ Settle(i, ok, IF calls[i].awaited THEN "done" ELSE pc[calls[i].fn], <<>>)
    /\ UNCHANGED <<snapshot, destArn>>

\* A DeleteSubscriptionFilter call returns.
RemoveReturns(i, ok) ==
    /\ i \in inflight /\ calls[i].op = "delete"
    /\ Settle(i, ok, IF calls[i].awaited THEN "done" ELSE pc[calls[i].fn], <<>>)
    /\ UNCHANGED <<snapshot, destArn>>

LogNext ==
    \/ addLogStreamFilters
    \/ removeLogStreamFilters
    \/ \E i \in 1..Len(calls), ok \in BOOLEAN : FetchReturns(i, ok)
    \/ \E i \in 1..Len(calls), ok \in BOOLEAN : DestinationReturns(i, ok)
    \/ \E i \in 1..Len(calls), ok \in BOOLEAN : DescribeReturns(i, ok)
    \/ \E i \in 1..Len(calls), ok \in BOOLEAN : AddReturns(i, ok)
    \/ \E i \in 1..Len(calls), ok \in BOOLEAN : RemoveReturns(i, ok)

LogSpec == LogInit /\ [][LogNext]_vars

-----------------------------------------------------------------------------
(* Properties.  Their preconditions are written out from the statements,   *)
(* with the literal names and patterns, not with the model's operators.    *)

\* The put and delete calls issued on f's log group, in issue order.
FilterCalls(f) ==
    SelectSeq(calls, LAMBDA c : c.logGroupName = "/aws/lambda/svc-dev-" \o f
                                /\ c.op \in {"put", "delete"})

\* The filters named NewRelicLogStreaming in a list of filters.
Reserved(fs) == SelectSeq(fs, LAMBDA x : x.filterName = "NewRelicLogStreaming")

\* The describe step of f has returned res.
Described(f) == Len(snapshot[f]) = 1

\* Indexes of the calls f's chain has issued.
CallsOf(f) == {i \in 1..Len(calls) : calls[i].fn = f}

ClaimedRuntimes ==
    {<<"nodejs", "12.x">>, <<"nodejs", "10.x">>, <<"nodejs", "8.10">>,
     <<"python", "2.7">>, <<"python", "3.6">>, <<"python", "3.7">>}

\* The function's own runtime, else the provider's.
ClaimedRuntimeOf(f) ==
    IF funcDefs[f].runtime = <<>> THEN service.runtime ELSE funcDefs[f].runtime

\* C1: an addLayer call that runs to its end on a definition an earlier
\* addLayer call already instrumented, with the same resolved layer ARN,
\* leaves the definition as it found it.
C1_ReplanChangesNothing ==
    [][\A f \in Funcs :
          (planned[f] >= 1 /\ planned'[f] = planned[f] + 1
              /\ lastArn'[f] = lastArn[f])
          => funcDefs'[f] = funcDefs[f]]_vars

\* C2: when describe returned exactly one filter named NewRelicLogStreaming
\* and its pattern is not NR_LAMBDA_MONITORING, the put and delete calls
\* issued on that log group are one delete followed by one put.
C2_StaleFilterRemoveThenAdd ==
    \A f \in Funcs :
        (Described(f)
            /\ Len(Reserved(snapshot[f][1])) = 1
            /\ Reserved(snapshot[f][1])[1].filterPattern # "NR_LAMBDA_MONITORING")
        => /\ Len(FilterCalls(f)) = 2
           /\ FilterCalls(f)[1].op = "delete"
           /\ FilterCalls(f)[1].filterName = "NewRelicLogStreaming"
           /\ FilterCalls(f)[2].op = "put"
           /\ FilterCalls(f)[2].filterName = "NewRelicLogStreaming"

\* C2 witness: a stale filter was described and both calls have returned.
C2_Witness ==
    \E f \in Funcs :
        /\ Described(f)
        /\ Len(Reserved(snapshot[f][1])) = 1
        /\ Reserved(snapshot[f][1])[1].filterPattern = "OLD_PATTERN"
        /\ Len(FilterCalls(f)) = 2
        /\ \A i \in CallsOf(f) : outcome[i] = "ok"

\* C3: a Remove and an Add for the same log group are never both in flight.
C3_RemoveCompletesBeforeAdd ==
    \A i \in inflight, j \in inflight :
        ~(/\ calls[i].op = "delete"
          /\ calls[j].op = "put"
          /\ calls[i].logGroupName = calls[j].logGroupName)

\* C4: once f's reconciliation has finished with every one of its calls
\* succeeding, f's log group holds exactly one filter named
\* NewRelicLogStreaming, with pattern NR_LAMBDA_MONITORING and the ingestion
\* function's ARN as destination.
C4_ConvergesToOneFilter ==
    \A f \in Funcs :
        (/\ hook = "deploy"
         /\ pc[f] = "done"
         /\ Described(f)
         /\ \A i \in CallsOf(f) : outcome[i] = "ok")
        => /\ Len(Reserved(filters[f])) = 1
           /\ Reserved(filters[f])[1].filterPattern = "NR_LAMBDA_MONITORING"
           /\ Reserved(filters[f])[1].destinationArn = IngestionArn

\* C5: when describe returned no filter named NewRelicLogStreaming, the put
\* and delete calls on that log group are exactly one put, with the reserved
\* name, the expected pattern, the log group /aws/lambda/{name} and the
\* ingestion function's ARN.
C5_NoFilterOneAdd ==
    \A f \in Funcs :
        (Described(f) /\ Len(Reserved(snapshot[f][1])) = 0)
        => /\ Len(FilterCalls(f)) = 1
           /\ FilterCalls(f)[1].op = "put"
           /\ FilterCalls(f)[1].filterName = "NewRelicLogStreaming"
           /\ FilterCalls(f)[1].filterPattern = "NR_LAMBDA_MONITORING"
           /\ FilterCalls(f)[1].destinationArn = IngestionArn
           /\ \A i \in CallsOf(f) :
                  calls[i].op \in {"put", "delete"}
                  => calls[i].logGroupName = "/aws/lambda/" \o funcDefs[f].name

\* C5 witness: another filter exists, none with the reserved name, and the
\* Add has returned.
C5_Witness ==
    \E f \in Funcs :
        /\ Described(f)
        /\ Len(snapshot[f][1]) = 1
        /\ Len(Reserved(snapshot[f][1])) = 0
        /\ pc[f] = "done"
        /\ \A i \in CallsOf(f) : outcome[i] = "ok"
        /\ Len(Reserved(filters[f])) = 1

\* C6: when describe returned at least one filter named NewRelicLogStreaming
\* and each of them has pattern NR_LAMBDA_MONITORING, no put and no delete is
\* issued on that log group and its filters stay as described.
C6_CurrentFilterUntouched ==
    \A f \in Funcs :
        (/\ Described(f)
         /\ Len(Reserved(snapshot[f][1])) >= 1
         /\ \A k \in 1..Len(Reserved(snapshot[f][1])) :
                Reserved(snapshot[f][1])[k].filterPattern = "NR_LAMBDA_MONITORING")
        => /\ Len(FilterCalls(f)) = 0
           /\ filters[f] = snapshot[f][1]

\* C6 witness: a filter with the expected pattern was described and the
\* chain has ended.
C6_Witness ==
    \E f \in Funcs :
        /\ Described(f)
        /\ Len(Reserved(snapshot[f][1])) = 1
        /\ Reserved(snapshot[f][1])[1].filterPattern = "NR_LAMBDA_MONITORING"
        /\ pc[f] = "done"
        /\ inflight = {}

\* C7: after the teardown hook, every function of the service, excluded or
\* not, has exactly one call issued for it, a delete of NewRelicLogStreaming
\* on its log group; no error has left a function's callback, and a failed
\* delete ends only its own callback.
C7_TeardownOneRemoveEach ==
    hook = "remove"
    => /\ \A f \in Funcs :
              /\ Cardinality(CallsOf(f)) = 1
              /\ Len(FilterCalls(f)) = 1
              /\ FilterCalls(f)[1].op = "delete"
              /\ FilterCalls(f)[1].filterName = "NewRelicLogStreaming"
              /\ pc[f] \in {"remove", "done"}
              /\ pc[f] = "remove" <=> \E i \in CallsOf(f) : i \in inflight
       /\ escaped = {}

\* C7 witness: teardown has ended; the Remove of an excluded function that
\* had no such filter failed, and another function's Remove succeeded.
C7_Witness ==
    /\ hook = "remove"
    /\ inflight = {}
    /\ \E f \in Funcs, g \in Funcs :
           /\ \E k \in 1..Len(config.exclude) : config.exclude[k] = f
           /\ Len(Reserved(filters[f])) = 0
           /\ \A i \in CallsOf(f) : outcome[i] = "failed"
           /\ logged[f] = 1
           /\ g # f
           /\ \A i \in CallsOf(g) : outcome[i] = "ok"
           /\ pc[f] = "done" /\ pc[g] = "done"

\* C8: in post-deploy reconciliation no error leaves a function's chain;
\* every failed call of a function is logged in that function's chain; a
\* chain that has not ended is waiting for a call of its own and for
\* nothing else; and when no call is in flight every chain that was started
\* has ended.
C8_FailuresStayInOwnChain ==
    hook = "deploy"
    => /\ escaped = {}
       /\ \A f \in Funcs :
              /\ logged[f] = Cardinality({i \in CallsOf(f) : outcome[i] = "failed"})
              /\ pc[f] \in {"fetch", "dest", "describe", "add"}
                     => \E i \in CallsOf(f) : i \in inflight /\ calls[i].awaited
              /\ pc[f] # "excluded" => CallsOf(f) # {}
       /\ inflight = {} => \A f \in Funcs : pc[f] \in {"done", "excluded"}

\* C8 witness: one function's chain ended on a failed call while another
\* function's chain ran through to a successful Add.
C8_Witness ==
    /\ hook = "deploy"
    /\ inflight = {}
    /\ \E f \in Funcs, g \in Funcs :
           /\ f # g
           /\ \E i \in CallsOf(f) : outcome[i] = "failed"
           /\ \A i \in CallsOf(g) : outcome[i] = "ok"
           /\ \E i \in CallsOf(g) : calls[i].op = "put"

\* C9: a function whose effective runtime is not one of the six supported
\* ones is never taken past addLayer's checks, and no step changes its
\* definition.
C9_UnsupportedRuntimeSkipped ==
    [][\A f \in Funcs :
          ClaimedRuntimeOf(f) \notin ClaimedRuntimes
          => /\ funcDefs'[f] = funcDefs[f]
             /\ apc'[f] \in {"idle", "skipped"}]_vars

\* C9 witness: a run skipped a function for its runtime alone and
\* instrumented another.
C9_Witness ==
    \E f \in Funcs, g \in Funcs :
        /\ ClaimedRuntimeOf(f) \notin ClaimedRuntimes
        /\ ClaimedRuntimeOf(f) # <<>>
        /\ service.region # Absent
        /\ config.accountId # Absent
        /\ apc[f] = "skipped"
        /\ planned[g] >= 1

\* C10: with config.accountId unset, a function whose environment has no
\* NEW_RELIC_ACCOUNT_ID is never taken past addLayer's checks, and no step
\* changes its definition.
C10_NoAccountIdSkipped ==
    [][\A f \in Funcs :
          (config.accountId = Absent
              /\ funcDefs[f].environment["NEW_RELIC_ACCOUNT_ID"] = Absent)
          => /\ funcDefs'[f] = funcDefs[f]
             /\ apc'[f] \in {"idle", "skipped"}]_vars

\* C10 witness: a run skipped a function of a supported runtime for want of
\* an account id and instrumented another, which carries its own.
C10_Witness ==
    \E f \in Funcs, g \in Funcs :
        /\ config.accountId = Absent
        /\ funcDefs[f].environment["NEW_RELIC_ACCOUNT_ID"] = Absent
        /\ ClaimedRuntimeOf(f) \in ClaimedRuntimes
        /\ service.region # Absent
        /\ apc[f] = "skipped"
        /\ planned[g] >= 1

\* How often the layer reference a occurs in a layers array.
Occurrences(items, a) == Cardinality({i \in 1..Len(items) : items[i] = a})

\* The layers array of f's definition ([] when it has none).
LayerItems(def) == IF def.layers.defined THEN def.layers.items ELSE <<>>

\* C11 (as stated): an addLayer call that runs to its end with a resolved
\* ARN leaves the layers unchanged if an existing layer string equals the
\* ARN and otherwise inserts the ARN exactly once; the ARN never occurs more
\* than once.
C11_InsertedUnlessEqual ==
    [][\A f \in Funcs :
          (planned'[f] = planned[f] + 1 /\ lastArn'[f].kind = "string")
          => LET a == lastArn'[f]
                 old == LayerItems(funcDefs[f])
                 new == LayerItems(funcDefs'[f])
             IN  /\ Occurrences(new, a) <= 1
                 /\ IF Occurrences(old, a) >= 1
                    THEN new = old
                    ELSE Len(new) = Len(old) + 1 /\ Occurrences(new, a) = 1]_vars

\* C11 (amended): the layers are left unchanged if an existing layer string
\* contains the ARN (equality included) and otherwise the ARN is inserted
\* exactly once; the ARN never occurs more than once.
C11_InsertedUnlessContained ==
    [][\A f \in Funcs :
          (planned'[f] = planned[f] + 1 /\ lastArn'[f].kind = "string")
          => LET a == lastArn'[f]
                 old == LayerItems(funcDefs[f])
                 new == LayerItems(funcDefs'[f])
             IN  /\ Occurrences(new, a) <= 1
                 /\ IF \E i \in 1..Len(old) :
                           old[i].kind = "string" /\ Contains(old[i].text, a.text)
                    THEN new = old
                    ELSE Len(new) = Len(old) + 1 /\ Occurrences(new, a) = 1]_vars

\* C11 witness: the planner ran twice to its end on a function with the
\* configured ARN, and the ARN is in its layers once.
C11_Witness ==
    \E f \in Funcs :
        /\ config.layerArn.kind = "string"
        /\ planned[f] = 2
        /\ lastArn[f] = config.layerArn
        /\ Occurrences(LayerItems(funcDefs[f]), config.layerArn) = 1

\* C12: when an addLayer call adds the ARN, the new layers are the ARN
\* followed by the old layers if config.prepend is the boolean true, and the
\* old layers followed by the ARN otherwise.
C12_PrependOrAppend ==
    [][\A f \in Funcs :
          (planned'[f] = planned[f] + 1
              /\ Len(LayerItems(funcDefs'[f])) # Len(LayerItems(funcDefs[f])))
          => LayerItems(funcDefs'[f]) =
                 IF config.prepend = "true"
                 THEN <<lastArn'[f]>> \o LayerItems(funcDefs[f])
                 ELSE LayerItems(funcDefs[f]) \o <<lastArn'[f]>>]_vars

\* C12 witness: with prepend true the ARN was put in front of two layers
\* that were there before.
C12_Witness ==
    \E f \in Funcs :
        /\ config.prepend = "true"
        /\ planned[f] >= 1
        /\ lastArn[f].kind = "string"
        /\ Len(LayerItems(funcDefs[f])) = 3
        /\ LayerItems(funcDefs[f])[1] = lastArn[f]
        /\ LayerItems(funcDefs[f])[2].text = <<"other-layer", ":", "3">>

-----------------------------------------------------------------------------
(* getHandlerWrapper on its own: any runtime string, any handler           *)

Nodejs14 == <<"nodejs", "14.x">>
Go1x == <<"go", "1.x">>
MicroPython == <<"micro", "python">>

WrapRuntimeInputs ==
    {Nodejs810, Nodejs10, Nodejs12, Nodejs14, Python27, Python36, Python37,
     Python38, MicroPython, Ruby25, Go1x}

WrapHandlerInputs == {"index.handler", "src/app.main", NodeWrapper}

WrapInit ==
    /\ config = BaseConfig
    /\ service \in {BaseService, [BaseService EXCEPT !.enterpriseEnabled = TRUE]}
    /\ funcDefs = [f \in Funcs |-> LogFuncDef(f)]
    /\ PlannerIdle
    /\ LogIdle
    /\ wrapArgs \in [runtime : WrapRuntimeInputs, handler : WrapHandlerInputs]
    /\ wrapResult = Absent

\* One call of getHandlerWrapper(runtime, handler).
CallGetHandlerWrapper ==
    /\ wrapResult = Absent
    /\ wrapResult' = getHandlerWrapper(wrapArgs.runtime, wrapArgs.handler)
    /\ UNCHANGED <<wrapArgs, plannerVars, logVars>>

WrapNext == CallGetHandlerWrapper

WrapSpec == WrapInit /\ [][WrapNext]_vars

\* C13 (as stated): the node wrapper for the three node runtimes, the python
\* wrapper for the three python runtimes, and the handler itself for every
\* other runtime string.
C13_WrapperByRuntime ==
    wrapResult # Absent
    => /\ wrapArgs.runtime \in {<<"nodejs", "8.10">>, <<"nodejs", "10.x">>,
                                <<"nodejs", "12.x">>}
              => wrapResult = "newrelic-lambda-wrapper.handler"
       /\ wrapArgs.runtime \in {<<"python", "2.7">>, <<"python", "3.6">>,
                                <<"python", "3.7">>}
              => wrapResult = "newrelic_lambda_wrapper.handler"
       /\ wrapArgs.runtime \notin ClaimedRuntimes
              => wrapResult = wrapArgs.handler

\* C13 (amended): as stated, but the handler is returned untouched only for
\* a runtime string that is none of the three node runtimes and does not
\* contain "python".
C13_WrapperByFamily ==
    wrapResult # Absent
    => /\ wrapArgs.runtime \in {<<"nodejs", "8.10">>, <<"nodejs", "10.x">>,
                                <<"nodejs", "12.x">>}
              => wrapResult = "newrelic-lambda-wrapper.handler"
       /\ wrapArgs.runtime \in {<<"python", "2.7">>, <<"python", "3.6">>,
                                <<"python", "3.7">>}
              => wrapResult = "newrelic_lambda_wrapper.handler"
       /\ (wrapArgs.runtime \notin ClaimedRuntimes
              /\ \A i \in 1..Len(wrapArgs.runtime) : wrapArgs.runtime[i] # "python")
              => wrapResult = wrapArgs.handler

\* C13 witness: called with a node runtime outside the list, the function
\* returned the handler it was given.
C13_Witness ==
    /\ wrapArgs.runtime = <<"nodejs", "14.x">>
    /\ wrapArgs.handler = "index.handler"
    /\ wrapResult = "index.handler"

\* The variables addLayer sets only when they have no value.
DefaultedKeys ==
    {"NEW_RELIC_LOG", "NEW_RELIC_LOG_LEVEL", "NEW_RELIC_NO_CONFIG_FILE",
     "NEW_RELIC_APP_NAME", "NEW_RELIC_ACCOUNT_ID", "NEW_RELIC_TRUSTED_ACCOUNT_KEY"}

\* C14: a variable of the six that is present in a function's environment,
\* whatever its value (the empty string included), keeps that value in every
\* step.
C14_PresentValueKept ==
    [][\A f \in Funcs : \A k \in DefaultedKeys :
          funcDefs[f].environment[k] # Absent
          => funcDefs'[f].environment[k] = funcDefs[f].environment[k]]_vars

\* The plugin list has serverless-webpack after serverless-newrelic-layers,
\* as run compares them: by indexOf, -1 standing for a plugin not listed.
WebpackListedAfter ==
    LET at(name) ==
            IF \E i \in 1..Len(service.plugins) : service.plugins[i] = name
            THEN (CHOOSE i \in 1..Len(service.plugins) : service.plugins[i] = name) - 1
            ELSE -1
    IN  at("serverless-webpack") > at("serverless-newrelic-layers")

\* The function passes addLayer's skip policy.
PassesSkipPolicy(f) ==
    /\ service.region # Absent
    /\ config.accountId # Absent
          \/ funcDefs[f].environment["NEW_RELIC_ACCOUNT_ID"] \notin {Absent, ""}
    /\ ClaimedRuntimeOf(f) \in ClaimedRuntimes
    /\ \A i \in 1..Len(config.exclude) : config.exclude[i] # f

\* C15 (as stated): with the incompatible plugin order, once run has
\* returned every function that passes the skip policy has been taken up by
\* the planner.
C15_WarnsAndStillPlans ==
    (runs >= 1 /\ WebpackListedAfter /\ service.version = <<1, 34, 0>>)
    => \A f \in Funcs : PassesSkipPolicy(f) => apc[f] # "idle"

\* C15 (amended): with the incompatible plugin order run logs and returns:
\* no function is taken up, no definition changes and no lookup is sent.
C15_SkipsEveryFunction ==
    [][WebpackListedAfter
          => /\ funcDefs' = funcDefs
             /\ apc' = apc
             /\ lookupLog' = lookupLog]_vars

\* C15 witness: run has returned under the incompatible order and left
\* alone a function that passes the skip policy.
C15_Witness ==
    /\ runs >= 1
    /\ WebpackListedAfter
    /\ service.version = <<1, 34, 0>>
    /\ \E f \in Funcs : PassesSkipPolicy(f) /\ apc[f] = "idle" /\ planned[f] = 0

\* C16: when the lookup a function's addLayer waits for ends without a
\* layer ARN (the request failed, the body was malformed or empty, or the
\* JSON has no LayerVersionArn at the path), that addLayer fails and the
\* function's definition stays as it was.
C16_FailedLookupLeavesDefinition ==
    [][\A f \in Funcs :
          (apc[f] = "awaitArn"
              /\ apc'[f] # "awaitArn"
              /\ (apc'[f] = "rejected" \/ lastArn'[f].kind # "string"))
          => /\ apc'[f] = "rejected"
             /\ funcDefs'[f] = funcDefs[f]]_vars

\* C17: within one run no two lookup requests carry the same runtime and
\* region.
C17_OneLookupPerRuntimeAndRegion ==
    \A i \in 1..Len(lookupLog), j \in 1..Len(lookupLog) :
        (i # j /\ lookupLog[i].run = lookupLog[j].run)
        => <<lookupLog[i].runtime, lookupLog[i].region>>
               # <<lookupLog[j].runtime, lookupLog[j].region>>

\* C18: with config.layerArn set, no lookup request is ever sent, every
\* addLayer call that runs to its end uses config.layerArn, and a layer that
\* appears in a function's layers is config.layerArn.
C18_OverrideBypassesLookup ==
    [][config.layerArn.kind = "string"
          => /\ lookupLog' = <<>>
             /\ \A f \in Funcs :
                    /\ planned'[f] # planned[f] => lastArn'[f] = config.layerArn
                    /\ \A i \in 1..Len(LayerItems(funcDefs'[f])) :
                           \/ LayerItems(funcDefs'[f])[i] = config.layerArn
                           \/ \E j \in 1..Len(LayerItems(funcDefs[f])) :
                                  LayerItems(funcDefs[f])[j]
                                      = LayerItems(funcDefs'[f])[i]]_vars

\* C18 witness: with config.layerArn set both functions were planned, one
\* got config.layerArn added to the layers it had, and no lookup was sent.
C18_Witness ==
    /\ config.layerArn.kind = "string"
    /\ lookupLog = <<>>
    /\ \A f \in Funcs : planned[f] >= 1
    /\ \E f \in Funcs :
           /\ Len(LayerItems(funcDefs[f])) = 3
           /\ Occurrences(LayerItems(funcDefs[f]), config.layerArn) = 1

\* The step of the reconciliation a call belongs to: fetch function,
\* resolve destination, describe filters, add/remove.
StepOf(c) ==
    CASE c.op = "getFunction" -> 1
      [] c.op = "getIngestion" -> 2
      [] c.op = "describe" -> 3
      [] c.op \in {"put", "delete"} -> 4

\* C19: in a post-deploy reconciliation a function's calls are issued in the
\* order fetch, resolve destination, describe, add/remove, with one call for
\* each of the first three steps, and a call of a later step is issued only
\* once the call of the step before it has returned successfully.
C19_StepsStrictlySequential ==
    hook = "deploy"
    => \A f \in Funcs : \A j \in CallsOf(f) :
           /\ \A i \in CallsOf(f) :
                  i < j => /\ StepOf(calls[i]) <= StepOf(calls[j])
                           /\ StepOf(calls[j]) <= 3
                                  => StepOf(calls[i]) < StepOf(calls[j])
           /\ StepOf(calls[j]) > 1
                  => \E i \in CallsOf(f) :
                         /\ i < j
                         /\ StepOf(calls[i]) = StepOf(calls[j]) - 1
                         /\ outcome[i] = "ok"

\* C19 witness: one function went through all four steps, each call
\* returning successfully, while another stopped after its destination
\* lookup failed, with two calls issued.
C19_Witness ==
    /\ hook = "deploy"
    /\ \E f \in Funcs :
           /\ {StepOf(calls[i]) : i \in CallsOf(f)} = {1, 2, 3, 4}
           /\ \A i \in CallsOf(f) : outcome[i] = "ok"
    /\ \E f \in Funcs :
           /\ pc[f] = "done"
           /\ {StepOf(calls[i]) : i \in CallsOf(f)} = {1, 2}
           /\ \E i \in CallsOf(f) : calls[i].op = "getIngestion"
                                     /\ outcome[i] = "failed"

\* C20: once run has returned, every function the planner took up carries
\* its instrumented definition: no addLayer call is still waiting for its
\* layer ARN, and none has ended without instrumenting.
C20_RunReturnsWithAllPlanned ==
    runs >= 1
    => \A f \in Funcs : apc[f] \notin {"idle", "skipped"} => apc[f] = "done"

====
